---------------------------- MODULE Spec2Model ----------------------------
(***************************************************************************)
(* Model of src/components/BondCalculator.tsx: a React component holding   *)
(* four raw-text input fields (bondData) and a derived CalculationResult   *)
(* (result) that an effect recomputes after every change of bondData.      *)
(*                                                                         *)
(* Texts are sequences of one-character strings.  Numbers are exact        *)
(* decimals n / 10^d in normal form, plus the JavaScript values NaN and    *)
(* +/-Infinity; rounding of IEEE doubles and the sign of zero are not      *)
(* represented.  The alphabet of the typed texts has no letters of         *)
(* "Infinity" and no "x", so the Infinity literal of parseFloat and the    *)
(* hexadecimal prefix of parseInt cannot occur.                            *)
(***************************************************************************)
EXTENDS Integers, Sequences, FiniteSets, TLC

VARIABLES
    typed,      \* the text each of the four number inputs shows (lines 107-151)
    bondData,   \* the input model: the value of each input, as text (lines 23-28)
    result,     \* the held CalculationResult, or Null (line 30)
    year,       \* the calendar year of the system clock
    calcYear,   \* the year the clock showed at the latest run of the effect
    pc,         \* "effect": the effect on [bondData] is due; "idle": it has run
    rendered    \* the input model and the result of the latest committed render

vars == <<typed, bondData, result, year, calcYear, pc, rendered>>

-----------------------------------------------------------------------------
(* Bounds of the model                                                     *)

\* the calendar year of the system clock when the component is mounted
FirstYear == 2026

\* how many times the calendar year may advance while the page stays open
MaxYearsElapsed == 2

-----------------------------------------------------------------------------
(* JavaScript numbers                                                      *)

Digits == {"0", "1", "2", "3", "4", "5", "6", "7", "8", "9"}

DigitVal(c) ==
    CASE c = "0" -> 0 [] c = "1" -> 1 [] c = "2" -> 2 [] c = "3" -> 3
      [] c = "4" -> 4 [] c = "5" -> 5 [] c = "6" -> 6 [] c = "7" -> 7
      [] c = "8" -> 8 [] c = "9" -> 9

RECURSIVE Pow10(_)
Pow10(k) == IF k = 0 THEN 1 ELSE 10 * Pow10(k - 1)

Abs(x) == IF x < 0 THEN -x ELSE x

RECURSIVE GCD(_, _)
GCD(a, b) == IF b = 0 THEN a ELSE GCD(b, a % b)

NaN == [kind |-> "NaN", n |-> 0, d |-> 0]

PosInfinity == [kind |-> "Infinity", n |-> 0, d |-> 0]

NegInfinity == [kind |-> "-Infinity", n |-> 0, d |-> 0]

\* the decimal n / 10^d with trailing zeros of the fraction removed
RECURSIVE Num(_, _)
Num(n, d) ==
    IF d > 0 /\ n % 10 = 0 THEN Num(n \div 10, d - 1)
    ELSE [kind |-> "num", n |-> n, d |-> d]

isNaN(x) == x.kind = "NaN"

IsFiniteNumber(x) == x.kind = "num"

\* a * b on doubles
Mul(a, b) ==
    IF isNaN(a) \/ isNaN(b) THEN NaN
    ELSE IF a.kind = "num" /\ b.kind = "num" THEN Num(a.n * b.n, a.d + b.d)
    ELSE IF (a.kind = "num" /\ a.n = 0) \/ (b.kind = "num" /\ b.n = 0) THEN NaN
    ELSE LET neg(x) == x.kind = "-Infinity" \/ (x.kind = "num" /\ x.n < 0)
         IN  IF neg(a) = neg(b) THEN PosInfinity ELSE NegInfinity

\* a + b on doubles
Add(a, b) ==
    IF isNaN(a) \/ isNaN(b) THEN NaN
    ELSE IF a.kind = "num" /\ b.kind = "num"
         THEN LET d == IF a.d > b.d THEN a.d ELSE b.d
              IN  Num(a.n * Pow10(d - a.d) + b.n * Pow10(d - b.d), d)
    ELSE IF a.kind = "num" THEN b
    ELSE IF b.kind = "num" THEN a
    ELSE IF a.kind = b.kind THEN a ELSE NaN

\* a - b on doubles
Sub(a, b) ==
    Add(a, IF b.kind = "num" THEN Num(-b.n, b.d)
           ELSE IF b.kind = "Infinity" THEN NegInfinity
           ELSE IF b.kind = "-Infinity" THEN PosInfinity ELSE NaN)

\* x / 100
Div100(x) == IF x.kind = "num" THEN Num(x.n, x.d + 2) ELSE x

\* the integer k as a number
IntNum(k) == Num(k, 0)

-----------------------------------------------------------------------------
(* Texts and their conversions                                             *)

\* the character of s at position i, "" past the end
At(s, i) == IF i >= 1 /\ i <= Len(s) THEN s[i] ELSE ""

\* the first position >= i of s that holds no white space
RECURSIVE SkipWhite(_, _)
SkipWhite(s, i) == IF At(s, i) = " " THEN SkipWhite(s, i + 1) ELSE i

\* the first position >= i of s that holds no digit
RECURSIVE DigitsEnd(_, _)
DigitsEnd(s, i) == IF At(s, i) \in Digits THEN DigitsEnd(s, i + 1) ELSE i

\* the value of the digits s[i], ..., s[j - 1]; 0 when there are none
RECURSIVE DigitsValue(_, _, _)
DigitsValue(s, i, j) ==
    IF j <= i THEN 0 ELSE DigitsValue(s, i, j - 1) * 10 + DigitVal(s[j - 1])

\* parseFloat(s): the longest prefix of the trimmed text that is a decimal
\* literal (sign, digits, fraction, exponent); NaN when there is none
parseFloat(s) ==
    LET i0    == SkipWhite(s, 1)
        i1    == IF At(s, i0) \in {"+", "-"} THEN i0 + 1 ELSE i0
        sign  == IF At(s, i0) = "-" THEN -1 ELSE 1
        i2    == DigitsEnd(s, i1)
        dot   == At(s, i2) = "."
        i3    == IF dot THEN DigitsEnd(s, i2 + 1) ELSE i2
        nInt  == i2 - i1
        nFrac == IF dot THEN i3 - i2 - 1 ELSE 0
        mant  == DigitsValue(s, i1, i2) * Pow10(nFrac)
                    + (IF dot THEN DigitsValue(s, i2 + 1, i3) ELSE 0)
        j1    == IF At(s, i3 + 1) \in {"+", "-"} THEN i3 + 2 ELSE i3 + 1
        j2    == DigitsEnd(s, j1)
        hasE  == At(s, i3) \in {"e", "E"} /\ j2 > j1
        ex    == IF hasE THEN DigitsValue(s, j1, j2) ELSE 0
        exNeg == hasE /\ At(s, i3 + 1) = "-"
    IN  IF nInt = 0 /\ nFrac = 0 THEN NaN
        ELSE IF exNeg THEN Num(sign * mant, nFrac + ex)
        ELSE Num(sign * mant * Pow10(ex), nFrac)

\* parseInt(s), radix 10: the sign and the leading digits of the trimmed
\* text; NaN when there is no digit
parseInt(s) ==
    LET i0   == SkipWhite(s, 1)
        i1   == IF At(s, i0) \in {"+", "-"} THEN i0 + 1 ELSE i0
        sign == IF At(s, i0) = "-" THEN -1 ELSE 1
        i2   == DigitsEnd(s, i1)
    IN  IF i2 = i1 THEN NaN ELSE Num(sign * DigitsValue(s, i1, i2), 0)

\* whether the text is a valid floating-point number for <input type="number">:
\* [-] (digits [. digits] | . digits) [(e|E) [+|-] digits], nothing else
\* (its value must also be in the range of a double; the texts of the model
\* are far from that limit)
IsValidNumberText(s) ==
    LET i1   == IF At(s, 1) = "-" THEN 2 ELSE 1
        i2   == DigitsEnd(s, i1)
        dot  == At(s, i2) = "."
        i3   == IF dot THEN DigitsEnd(s, i2 + 1) ELSE i2
        mark == At(s, i3) \in {"e", "E"}
        j1   == IF At(s, i3 + 1) \in {"+", "-"} THEN i3 + 2 ELSE i3 + 1
        j2   == DigitsEnd(s, j1)
    IN  /\ i2 > i1 \/ dot
        /\ dot => i3 > i2 + 1
        /\ IF mark THEN j2 > j1 /\ j2 = Len(s) + 1 ELSE i3 = Len(s) + 1

\* variant: the value of a text input, which is the text as typed
InputValueOfTextInput(text) == text

\* e.target.value of a number input showing `text`: the text itself when
\* it is a valid number, the empty string otherwise

InputValue(text) == IF IsValidNumberText(text) THEN text ELSE << >>

-----------------------------------------------------------------------------
(* The component                                                           *)

Fields == {"nominalValue", "currentValue", "expirationYear", "yearlyInterestRate"}

\* the texts a user may leave in each field
TypedTexts(field) ==
    CASE field = "nominalValue" ->
           { << >>, <<"a">>, <<"1", "2", "a">>, <<"1", "0", "0", "0">>,
             <<"1", "e", "3">>, <<".", "5">> }
      [] field = "currentValue" ->
           { << >>, <<"-">>, <<"9", "0", "0">>, <<"1", "0", "0", "0">>,
             <<"0">>, <<"-", "9", "0", "0">>, <<" ", "9", "0", "0">> }
      [] field = "expirationYear" ->
           { << >>, <<"2", "e", "3">>, <<".", "5">>, <<"2", "0", "2", "6">>,
             <<"2", "0", "2", "7">>, <<"2", "0", "2", "7", ".", "9">>,
             <<"2", "0", "3", "1">>, <<"2", "0", "3", "1", "-">> }
      [] field = "yearlyInterestRate" ->
           { << >>, <<"1", "e">>, <<"0">>, <<"2", ".", "5">>, <<"5">>,
             <<"-", "1">> }

\* the result state when no CalculationResult is held
Null == [kind |-> "null"]

\* x / y on doubles, y not infinite: a reduced fraction p / q, or the
\* non-finite value of a division by zero
Quotient(x, y) ==
    IF isNaN(x) \/ isNaN(y) THEN [kind |-> "NaN", p |-> 0, q |-> 0]
    ELSE IF x.kind # "num" THEN [kind |-> x.kind, p |-> 0, q |-> 0]
    ELSE IF y.n = 0
         THEN [kind |-> IF x.n > 0 THEN "Infinity"
                        ELSE IF x.n < 0 THEN "-Infinity" ELSE "NaN",
               p |-> 0, q |-> 0]
    ELSE LET a == x.n * Pow10(y.d)
             b == y.n * Pow10(x.d)
             g == GCD(Abs(a), Abs(b))
             sg == IF b < 0 THEN -1 ELSE 1
         IN  [kind |-> "num", p |-> sg * (a \div g), q |-> sg * (b \div g)]

\* Math.pow(base, 1 / years), years >= 1: the years-th root of p / q, kept
\* as the radicand and the index of the root
MathPow(base, years) ==
    IF base.kind = "NaN" THEN [kind |-> "NaN", p |-> 0, q |-> 0, index |-> 0]
    ELSE IF base.kind = "Infinity"
         THEN [kind |-> "Infinity", p |-> 0, q |-> 0, index |-> 0]
    ELSE IF base.kind = "-Infinity"
         THEN [kind |-> IF years = 1 THEN "-Infinity" ELSE "Infinity",
               p |-> 0, q |-> 0, index |-> 0]
    ELSE IF base.p < 0 /\ years # 1
         THEN [kind |-> "NaN", p |-> 0, q |-> 0, index |-> 0]
    ELSE [kind |-> "num", p |-> base.p, q |-> base.q,
          index |-> IF base.p = 0 \/ base.p = base.q THEN 1 ELSE years]

\* variant: the guard of line 38 without the test of current
AnyNaNButCurrent(nominal, current, expYear, interestRate) ==
    isNaN(nominal) \/ isNaN(expYear) \/ isNaN(interestRate)

\* variant: the guard of line 38 also rejecting a current value <= 0
AnyNaNOrNotPositive(nominal, current, expYear, interestRate) ==
    \/ isNaN(nominal) \/ isNaN(current) \/ isNaN(expYear) \/ isNaN(interestRate)
    \/ current.n <= 0

\* the guard of line 38
AnyNaN(nominal, current, expYear, interestRate) ==
    isNaN(nominal) \/ isNaN(current) \/ isNaN(expYear) \/ isNaN(interestRate)

\* variant: line 44 counting the current year as remaining
YearsRemainingInclusive(expYear, currentYear) == expYear.n - currentYear + 1

\* line 44
YearsRemaining(expYear, currentYear) == expYear.n - currentYear

\* variant: the guard of line 46 letting yearsRemaining = 0 through
ExpiredStrict(yearsRemaining) == yearsRemaining < 0

\* the guard of line 46
Expired(yearsRemaining) == yearsRemaining <= 0

\* variant: line 55 paying no coupon in the first year
TotalInterestPaymentsAfterFirstYear(annualInterest, yearsRemaining) ==
    Mul(annualInterest, IntNum(yearsRemaining - 1))

\* line 55
TotalInterestPayments(annualInterest, yearsRemaining) ==
    Mul(annualInterest, IntNum(yearsRemaining))

\* variant: line 58 without the nominal value paid at expiration
TotalReturnInterestOnly(totalInterestPayments, nominal) == totalInterestPayments

\* line 58
TotalReturn(totalInterestPayments, nominal) ==
    Add(totalInterestPayments, nominal)

\* the value calculateCompoundRate() passes to setResult when the closure
\* holds the input model bd and the clock shows currentYear
calculateCompoundRate(bd, currentYear) ==
    LET nominal      == parseFloat(bd.nominalValue)
        current      == parseFloat(bd.currentValue)
        expYear      == parseInt(bd.expirationYear)
        interestRate == Div100(parseFloat(bd.yearlyInterestRate))
    IN  IF AnyNaN(nominal, current, expYear, interestRate) THEN Null
        ELSE LET yearsRemaining == YearsRemaining(expYear, currentYear)
             IN  IF Expired(yearsRemaining) THEN Null
                 ELSE LET annualInterest == Mul(nominal, interestRate)
                          totalInterestPayments ==
                              TotalInterestPayments(annualInterest, yearsRemaining)
                          totalReturn ==
                              TotalReturn(totalInterestPayments, nominal)
                          compoundRate ==
                              MathPow(Quotient(totalReturn, current), yearsRemaining)
                      IN  [compoundRate          |-> compoundRate,
                           totalInterestPayments |-> totalInterestPayments,
                           totalReturn           |-> totalReturn,
                           yearsRemaining        |-> yearsRemaining]

\* variant: setResult updating a held result in place, yearsRemaining kept
SetResultMerged(held, value) ==
    IF held # Null /\ value # Null
    THEN [value EXCEPT !.yearsRemaining = held.yearsRemaining]
    ELSE value

\* setResult: the held result is replaced by the value passed
SetResult(held, value) == value

\* variant: the updater of setBondData without the copy of prev
SetFieldOnly(prev, field, value) ==
    [f \in Fields |-> IF f = field THEN value ELSE << >>]

\* the updater of setBondData: a copy of prev with one field replaced
SetField(prev, field, value) == [prev EXCEPT ![field] = value]

\* variant: a dependency array [bondData.nominalValue]
DepsChangedNominalOnly(field) == field = "nominalValue"

\* the dependency array [bondData] of the effect: setBondData always stores
\* a new object, so a change of any field schedules the effect
DepsChanged(field) == TRUE

\* what a render commits: the input model and the result it was given
Render(bd, res) == [bondData |-> bd, result |-> res]

\* the profit the result panel shows for a committed render with a result
Profit(view) == Sub(view.result.totalReturn, parseFloat(view.bondData.currentValue))

Init ==
    /\ typed = [f \in Fields |-> << >>]
    /\ bondData = [f \in Fields |-> << >>]
    /\ result = Null
    /\ year = FirstYear
    /\ calcYear = FirstYear
    /\ pc = "effect"
    /\ rendered = Render(bondData, result)

\* an input event on a field: onChange calls handleInputChange with the
\* element's value, and the component renders again with the new input
\* model and the result it holds
handleInputChange(field, text) ==
    /\ pc = "idle"
    /\ typed' = [typed EXCEPT ![field] = text]
    /\ bondData' = SetField(bondData, field, InputValue(text))
    /\ rendered' = Render(bondData', result)
    /\ pc' = IF DepsChanged(field) THEN "effect" ELSE "idle"
    /\ UNCHANGED <<result, year, calcYear>>

\* the effect on [bondData]: calculateCompoundRate() reads the clock and
\* sets the result, and the component renders again
useEffect ==
    /\ pc = "effect"
    /\ result' = SetResult(result, calculateCompoundRate(bondData, year))
    /\ calcYear' = year
    /\ rendered' = Render(bondData, result')
    /\ pc' = "idle"
    /\ UNCHANGED <<typed, bondData, year>>

\* the calendar year of the system clock advances
NewYear ==
    /\ year < FirstYear + MaxYearsElapsed
    /\ year' = year + 1
    /\ UNCHANGED <<typed, bondData, result, calcYear, pc, rendered>>

Next ==
    \/ \E field \in Fields : \E text \in TypedTexts(field) :
           handleInputChange(field, text)
    \/ useEffect
    \/ NewYear

Spec == Init /\ [][Next]_vars

-----------------------------------------------------------------------------
(* Properties                                                              *)

ResultFields == {"compoundRate", "totalInterestPayments", "totalReturn", "yearsRemaining"}

\* the effect has run for the latest change of the input model
Settled == pc = "idle"

nominalParsed == parseFloat(bondData.nominalValue)

currentParsed == parseFloat(bondData.currentValue)

expYearParsed == parseInt(bondData.expirationYear)

ratePercentParsed == parseFloat(bondData.yearlyInterestRate)

AllParse ==
    /\ IsFiniteNumber(nominalParsed)
    /\ IsFiniteNumber(currentParsed)
    /\ IsFiniteNumber(expYearParsed)
    /\ IsFiniteNumber(Div100(ratePercentParsed))

\* C1: in every settled state a result is held if and only if all four
\* fields parse to finite numbers and expirationYear minus the calendar year
\* read by the calculation is > 0; a held result has exactly its four
\* fields, otherwise the result is null.
C1_ResultIffValid ==
    Settled =>
        /\ (result # Null) <=> (AllParse /\ expYearParsed.n - calcYear > 0)
        /\ result # Null => DOMAIN result = ResultFields

C1_Witness ==
    /\ Settled
    /\ result # Null
    /\ AllParse
    /\ typed.nominalValue = <<"1", "e", "3">>

\* C2: whatever the other three fields hold, a parsed expirationYear that
\* is less than or equal to the calendar year of the calculation gives a
\* null result.
C2_ExpiredIsAbsent ==
    (Settled /\ IsFiniteNumber(expYearParsed) /\ expYearParsed.n <= calcYear)
        => result = Null

C2_Witness ==
    /\ Settled
    /\ AllParse
    /\ expYearParsed.n = calcYear
    /\ result = Null

\* C3: when any field is left empty or shows text that is not a number,
\* the result after the recomputation is null.
C3_InvalidFieldIsAbsent ==
    (Settled /\ \E f \in Fields : typed[f] = << >> \/ ~IsValidNumberText(typed[f]))
        => result = Null

C3_Witness ==
    /\ Settled
    /\ typed.nominalValue = <<"1", "2", "a">>
    /\ \A f \in Fields \ {"nominalValue"} : IsValidNumberText(typed[f])
    /\ expYearParsed.n > calcYear
    /\ result = Null

\* C4: inputs that all parse, with yearsRemaining > 0 and currentValue > 0,
\* give a result whose totalReturn is totalInterestPayments + nominalValue
\* and whose yearsRemaining is expirationYear minus the calendar year.
C4_TotalReturnIsInterestPlusNominal ==
    (Settled /\ AllParse /\ expYearParsed.n - calcYear > 0 /\ currentParsed.n > 0)
        => /\ result # Null
           /\ result.totalReturn = Add(result.totalInterestPayments, nominalParsed)
           /\ result.yearsRemaining = expYearParsed.n - calcYear

C4_Witness ==
    /\ Settled
    /\ result # Null
    /\ currentParsed.n > 0
    /\ result.totalInterestPayments.n > 0
    /\ result.totalReturn.n > nominalParsed.n

\* C5: every change of an input field schedules the calculation, and once
\* it has run the held result is the calculation applied from scratch to
\* the current four fields: nothing of an earlier result is retained.
C5_RecomputedFromScratch ==
    /\ [](Settled => result = calculateCompoundRate(bondData, calcYear))
    /\ [][(pc = "idle" /\ (typed' # typed \/ bondData' # bondData))
              => pc' = "effect"]_vars

C5_Witness ==
    /\ Settled
    /\ result # Null
    /\ calcYear = FirstYear + 1
    /\ result.yearsRemaining = expYearParsed.n - FirstYear - 1

\* C6: a currentValue that parses to zero or to a negative number, with the
\* other three fields parsing and yearsRemaining > 0, still gives a result,
\* with totalInterestPayments, totalReturn and yearsRemaining as usual.
C6_NoGuardOnCurrentValue ==
    (Settled /\ AllParse /\ expYearParsed.n - calcYear > 0 /\ currentParsed.n <= 0)
        => /\ result # Null
           /\ result.yearsRemaining = expYearParsed.n - calcYear
           /\ result.totalInterestPayments =
                  Mul(Mul(nominalParsed, Div100(ratePercentParsed)),
                      IntNum(result.yearsRemaining))
           /\ result.totalReturn = Add(result.totalInterestPayments, nominalParsed)

C6_Witness ==
    /\ Settled
    /\ result # Null
    /\ currentParsed.n = 0
    /\ result.compoundRate.kind = "Infinity"

\* C7: coupons accumulate without compounding: totalInterestPayments is
\* nominalValue * (yearlyInterestRate / 100) * yearsRemaining; nominal 1000
\* at 2.5 % with 5 years remaining gives 125, a total return of 1125 and,
\* bought at 900, a profit of 225.
C7_SimpleInterest ==
    (Settled /\ result # Null) =>
        /\ result.totalInterestPayments =
               Num(nominalParsed.n * ratePercentParsed.n * result.yearsRemaining,
                   nominalParsed.d + ratePercentParsed.d + 2)
        /\ (nominalParsed = Num(1000, 0) /\ ratePercentParsed = Num(25, 1)
                /\ result.yearsRemaining = 5)
             => /\ result.totalInterestPayments = Num(125, 0)
                /\ result.totalReturn = Num(1125, 0)
                /\ currentParsed = Num(900, 0) => Profit(rendered) = Num(225, 0)

C7_Witness ==
    /\ Settled
    /\ result # Null
    /\ nominalParsed = Num(1000, 0)
    /\ ratePercentParsed = Num(25, 1)
    /\ currentParsed = Num(900, 0)
    /\ result.yearsRemaining = 5
    /\ Profit(rendered) = Num(225, 0)

\* C8 as stated: whenever a result is held, its yearsRemaining is
\* expirationYear minus the calendar year the clock shows now, and > 0.
C8_YearsRemainingFollowsClock ==
    (Settled /\ result # Null)
        => /\ result.yearsRemaining = expYearParsed.n - year
           /\ expYearParsed.n - year > 0

\* C8 as amended: whenever a result is held in a settled state, its
\* yearsRemaining is expirationYear minus the calendar year the latest
\* recomputation read, which is > 0 and may lie behind the clock.
C8_YearsRemainingAsOfCalculation ==
    (Settled /\ result # Null)
        => /\ result.yearsRemaining = expYearParsed.n - calcYear
           /\ result.yearsRemaining > 0
           /\ calcYear <= year

C8_Witness ==
    /\ Settled
    /\ result # Null
    /\ calcYear < year
    /\ result.yearsRemaining = expYearParsed.n - year + 1

\* C9 as stated: every committed render that shows the result panel shows a
\* result computed from the input model of that same render, so the profit
\* pairs a totalReturn and a current-value text of one input state.
C9_RenderNeverMixesStates ==
    rendered.result # Null
        => rendered.result = calculateCompoundRate(rendered.bondData, calcYear)

\* C9 as amended: once the effect has run, the committed render shows the
\* current input model with the result computed from it, and the profit
\* pairs that result's totalReturn with the current current-value text.
C9_SettledRenderIsConsistent ==
    Settled =>
        /\ rendered = Render(bondData, result)
        /\ rendered.result = calculateCompoundRate(rendered.bondData, calcYear)
        /\ rendered.result # Null =>
               Profit(rendered) =
                   Sub(Add(Mul(Mul(nominalParsed, Div100(ratePercentParsed)),
                               IntNum(expYearParsed.n - calcYear)),
                           nominalParsed),
                       currentParsed)

C9_Witness ==
    /\ Settled
    /\ rendered.result # Null
    /\ rendered.bondData.currentValue = <<"-", "9", "0", "0">>
    /\ Profit(rendered).n > rendered.result.totalReturn.n

\* C10: handleInputChange stores the text it is given in the named field,
\* unmodified, and leaves the other three fields as they are; the
\* recomputation and the clock never modify a field.
C10_OnlyNamedFieldChanges ==
    [][/\ pc = "idle" =>
            \/ bondData' = bondData /\ typed' = typed
            \/ \E f \in Fields :
                   /\ bondData' = [bondData EXCEPT ![f] = InputValue(typed'[f])]
                   /\ \A g \in Fields \ {f} : typed'[g] = typed[g]
       /\ pc = "effect" => bondData' = bondData]_vars

C10_Witness ==
    /\ Settled
    /\ bondData.expirationYear = <<".", "5">>
    /\ isNaN(expYearParsed)
    /\ bondData.nominalValue = <<"1", "e", "3">>
    /\ bondData.yearlyInterestRate = <<"2", ".", "5">>

=============================================================================
